---------------------------- MODULE Spec2Model ----------------------------
(***************************************************************************)
(* A model of slotmachine (src/slotmachine/__init__.py): the SlotMachine   *)
(* object, the binary program get_problem builds for a talk list, the      *)
(* solver's contract, and the placement schedule_talks reads back.         *)
(*                                                                         *)
(* A variable of the program is named by the tuple its pulp name is        *)
(* formatted from: <<"B", slot, talk, venue>> is start_var's               *)
(* "B_%d_%d_%d" and <<"A", slot, talk, venue>> is active's "A_%d_%d_%d".   *)
(* A linear expression is a function from variable names to integer        *)
(* coefficients, a constraint a record [lhs, sense, rhs].                  *)
(*                                                                         *)
(* Domain of the inputs: talk ids are unique within a talk list,           *)
(* durations are >= 1, and the slots of slots_available and of             *)
(* allowed_slots are indices counted from the epoch, hence >= 0 (schedule  *)
(* takes the epoch as the earliest range start, line 256).  Slots of prior *)
(* placements and of preferred_slots may be negative or beyond the grid.   *)
(***************************************************************************)
EXTENDS Integers, Sequences, FiniteSets, TLC

(* ----------------------------- bounds ---------------------------------- *)
MaxSlot == 3
MaxDuration == 2

(* ------------------------ program constants ---------------------------- *)
PreferredVenueWeight == 5
PreferredSlotWeight == 10
SamePlaceWeight == 10
SameSlotWeight == 5
NearbyWeight == 1
NearbySlots == 6

(* ------------------------------ helpers -------------------------------- *)
Max(a, b) == IF a >= b THEN a ELSE b

\* Python's range(a, b)
Range(a, b) == a .. (b - 1)

RECURSIVE SumOver(_, _)
\* sum of f[k] over k in S
SumOver(S, f) ==
    IF S = {} THEN 0
    ELSE LET k == CHOOSE x \in S : TRUE IN f[k] + SumOver(S \ {k}, f)

\* the elements of a list
Elems(seq) == {seq[i] : i \in DOMAIN seq}

RECURSIVE SetToSeq(_)
\* a list holding the elements of S once each
SetToSeq(S) ==
    IF S = {} THEN <<>>
    ELSE LET k == CHOOSE x \in S : TRUE IN <<k>> \o SetToSeq(S \ {k})

(* --------------------------- pulp variables ---------------------------- *)
\* pulp.LpVariable(name, cat="Binary")
Binary == [lowBound |-> 0, upBound |-> 1]
\* pulp.LpVariable(name, lowBound=0, upBound=0, cat="Integer")
FixedZero == [lowBound |-> 0, upBound |-> 0]

B(slot, talk_id, venue) == <<"B", slot, talk_id, venue>>
A(slot, talk_id, venue) == <<"A", slot, talk_id, venue>>

\* self.talks_by_id = {talk.id: talk for talk in talks}
TalksById(talks) ==
    [id \in {talks[i].id : i \in DOMAIN talks} |->
        talks[CHOOSE i \in DOMAIN talks :
                 /\ talks[i].id = id
                 /\ \A j \in DOMAIN talks : talks[j].id = id => j <= i]]
    @@ <<>>

\* start_var without the contiguity loop: every start variable is free
start_var_unchecked(slot, talk_id, tbi, sa) == Binary

\* start_var whose loop looks at the start slot alone
start_var_first_slot(slot, talk_id, tbi, sa) ==
    IF slot \notin sa THEN FixedZero ELSE Binary

\* start_var: the variable made for a name not yet in the cache
start_var(slot, talk_id, tbi, sa) ==
    LET contiguous ==
            \A slot_offset \in Range(0, tbi[talk_id].duration) :
                slot + slot_offset \in sa
    IN IF ~contiguous THEN FixedZero ELSE Binary

\* active without the venue test
active_var_any_venue(slot, talk_id, venue, tbi) ==
    IF slot \in tbi[talk_id].allowed_slots THEN Binary ELSE FixedZero

\* active: the variable made for a name not yet in the cache
active_var(slot, talk_id, venue, tbi) ==
    IF /\ slot \in tbi[talk_id].allowed_slots
       /\ venue \in tbi[talk_id].venues
    THEN Binary
    ELSE FixedZero

\* active summing one start too many: range(slot, max(-1, slot - duration - 1), -1)
active_starts_wide(slot, duration) ==
    {s \in (slot - duration - 1) .. slot : s > Max(-1, slot - duration - 1)}

\* active: the slots s of range(slot, max(-1, slot - duration), -1)
active_starts(slot, duration) ==
    {s \in (slot - duration) .. slot : s > Max(-1, slot - duration)}

\* active: the constraint  variable == lpSum(start_var(s, talk_id, venue))
active_definition(slot, talk_id, venue, tbi) ==
    LET starts == {B(s, talk_id, venue) :
                      s \in active_starts(slot, tbi[talk_id].duration)}
    IN [lhs   |-> [k \in {A(slot, talk_id, venue)} \cup starts |->
                      IF k[1] = "A" THEN 1 ELSE -1],
        sense |-> "==",
        rhs   |-> 0]

(* ----------------------------- get_problem ----------------------------- *)
\* the indices of the old_talks entries of one talk
PriorsOf(old_talks, talk_id) ==
    {i \in DOMAIN old_talks : old_talks[i][2] = talk_id}

\* how often the generator of each objective term yields active(slot, talk, venue)
PreferredVenueTerm(slot, talk, venue, sa) ==
    IF venue \in talk.preferred_venues /\ slot \in sa THEN 1 ELSE 0

PreferredSlotTerm(slot, talk, venue, venues) ==
    IF slot \in talk.preferred_slots /\ venue \in venues THEN 1 ELSE 0

SamePlaceTerm(slot, talk, venue, old_talks) ==
    Cardinality({i \in PriorsOf(old_talks, talk.id) :
        /\ old_talks[i][3] = venue
        /\ slot \in Range(old_talks[i][1], old_talks[i][1] + talk.duration)})

SameSlotTerm(slot, talk, venue, old_talks) ==
    Cardinality({i \in PriorsOf(old_talks, talk.id) :
        /\ slot \in Range(old_talks[i][1], old_talks[i][1] + talk.duration)
        /\ venue \in talk.venues})

NearbyTerm(slot, talk, venue, old_talks) ==
    Cardinality({i \in PriorsOf(old_talks, talk.id) :
        /\ slot \in Range(old_talks[i][1] - NearbySlots,
                          old_talks[i][1] + talk.duration + NearbySlots)
        /\ venue \in talk.venues})

\* the coefficient of active(slot, talk, venue) in the objective
ObjectiveCoefficient(slot, talk, venue, venues, old_talks, sa) ==
    PreferredVenueWeight * PreferredVenueTerm(slot, talk, venue, sa)
    + PreferredSlotWeight * PreferredSlotTerm(slot, talk, venue, venues)
    + SamePlaceWeight * SamePlaceTerm(slot, talk, venue, old_talks)
    + SameSlotWeight * SameSlotTerm(slot, talk, venue, old_talks)
    + NearbyWeight * NearbyTerm(slot, talk, venue, old_talks)

\* the (slot, talk, venue) of every self.active call the objective makes
ObjectiveActive(venues, talks, old_talks, sa) ==
    LET tbi == TalksById(talks)
    IN UNION {{<<slot, talks[i].id, venue>> :
                  venue \in talks[i].preferred_venues, slot \in sa} : i \in DOMAIN talks}
       \cup UNION {{<<slot, talks[i].id, venue>> :
                  slot \in talks[i].preferred_slots, venue \in venues} : i \in DOMAIN talks}
       \cup UNION {{<<s, old_talks[i][2], old_talks[i][3]>> :
                  s \in Range(old_talks[i][1],
                              old_talks[i][1] + tbi[old_talks[i][2]].duration)} :
                  i \in DOMAIN old_talks}
       \cup UNION {{<<s, old_talks[i][2], v>> :
                  s \in Range(old_talks[i][1],
                              old_talks[i][1] + tbi[old_talks[i][2]].duration),
                  v \in tbi[old_talks[i][2]].venues} : i \in DOMAIN old_talks}
       \cup UNION {{<<s, old_talks[i][2], v>> :
                  s \in Range(old_talks[i][1] - NearbySlots,
                              old_talks[i][1] + tbi[old_talks[i][2]].duration
                              + NearbySlots),
                  v \in tbi[old_talks[i][2]].venues} : i \in DOMAIN old_talks}

\* "Every talk begins exactly once"
BeginsOnce(talk, venues, sa) ==
    [lhs   |-> [k \in {B(slot, talk.id, venue) : slot \in sa, venue \in venues} |-> 1],
     sense |-> "==",
     rhs   |-> 1]

\* the venue constraint summing start variables instead of active ones
VenueExclusionOfStarts(v, slot, talks) ==
    [lhs   |-> [k \in {B(slot, talks[i].id, v) : i \in DOMAIN talks} |-> 1],
     sense |-> "<=",
     rhs   |-> 1]

\* "At most one talk may be active in a given venue and slot"
VenueExclusion(v, slot, talks) ==
    [lhs   |-> [k \in {A(slot, talks[i].id, v) : i \in DOMAIN talks} |-> 1],
     sense |-> "<=",
     rhs   |-> 1]

\* how often talks_by_speaker[speaker] holds talk_id: once per listing
Listings(talks, speaker, talk_id) ==
    SumOver({i \in DOMAIN talks : talks[i].id = talk_id},
            [i \in DOMAIN talks |->
                Cardinality({j \in DOMAIN talks[i].speakers :
                                talks[i].speakers[j] = speaker})])

\* len(talks_by_speaker[speaker])
ConflictsLen(talks, speaker) ==
    SumOver({talks[i].id : i \in DOMAIN talks},
            [id \in {talks[i].id : i \in DOMAIN talks} |-> Listings(talks, speaker, id)])

\* the speaker test off by one: len(conflicts) > 2
ConflictSpeakersOverTwo(talks) ==
    {sp \in UNION {Elems(talks[i].speakers) : i \in DOMAIN talks} :
        ConflictsLen(talks, sp) > 2}

\* the speakers whose talks get a constraint: len(conflicts) > 1
ConflictSpeakers(talks) ==
    {sp \in UNION {Elems(talks[i].speakers) : i \in DOMAIN talks} :
        ConflictsLen(talks, sp) > 1}

\* "it can only be active in at most one talk slot at the same time"
SpeakerExclusion(speaker, slot, talks, venues) ==
    LET conflicts == {talks[i].id : i \in {j \in DOMAIN talks :
                                            speaker \in Elems(talks[j].speakers)}}
    IN [lhs   |-> [k \in {A(slot, talk_id, venue) :
                             talk_id \in conflicts, venue \in venues} |->
                      Listings(talks, speaker, k[3])],
        sense |-> "<=",
        rhs   |-> 1]

\* get_problem: the cache and the problem it leaves on the object
get_problem(venues, talks, old_talks, sa) ==
    LET tbi == TalksById(talks)
        grid == {<<slot, talks[i].id, v>> : slot \in sa, i \in DOMAIN talks, v \in venues}
        scored == ObjectiveActive(venues, talks, old_talks, sa)
        actives == grid \cup scored
        starts ==
            grid \cup UNION {{<<s, c[2], c[3]>> :
                                s \in active_starts(c[1], tbi[c[2]].duration)} : c \in actives}
    IN [var_cache |->
            [k \in {B(c[1], c[2], c[3]) : c \in starts} |->
                start_var(k[2], k[3], tbi, sa)]
            @@ [k \in {A(c[1], c[2], c[3]) : c \in actives} |->
                active_var(k[2], k[3], k[4], tbi)],
        constraints |->
            {BeginsOnce(talks[i], venues, sa) : i \in DOMAIN talks}
            \cup {VenueExclusion(v, slot, talks) : v \in venues, slot \in sa}
            \cup {active_definition(c[1], c[2], c[3], tbi) : c \in actives}
            \cup {SpeakerExclusion(sp, slot, talks, venues) :
                     sp \in ConflictSpeakers(talks), slot \in sa},
        objective |->
            [k \in {A(c[1], c[2], c[3]) : c \in scored} |->
                ObjectiveCoefficient(k[2], tbi[k[3]], k[4], venues, old_talks, sa)]]

(* ------------------------------ the solver ----------------------------- *)
\* The solver is given the cache's variables with their bounds, the
\* constraints and the objective.  An assignment is named by the set X of
\* start variables it sets to 1; an active variable takes the value its
\* defining equality  variable - lpSum(starts) == 0  gives it, so those
\* equalities hold of every assignment considered.
IsDefinition(c) == c.sense = "==" /\ c.rhs = 0

\* the start variables an active variable is the sum of
Definitions(constraints) ==
    LET pairs == {<<CHOOSE k \in DOMAIN c.lhs : c.lhs[k] = 1,
                    {k \in DOMAIN c.lhs : c.lhs[k] = -1}>> :
                     c \in {d \in constraints : IsDefinition(d)}}
    IN [a \in {p[1] : p \in pairs} |-> (CHOOSE p \in pairs : p[1] = a)[2]] @@ <<>>

Value(k, X, defs) ==
    IF k[1] = "B" THEN (IF k \in X THEN 1 ELSE 0)
    ELSE Cardinality(defs[k] \cap X)

\* the left-hand side of a constraint, or the objective, under an assignment
Evaluate(expr, X, defs) ==
    SumOver({k \in DOMAIN expr : Value(k, X, defs) # 0},
            [k \in DOMAIN expr |-> expr[k] * Value(k, X, defs)])

Holds(c, X, defs) ==
    IF c.sense = "==" THEN Evaluate(c.lhs, X, defs) = c.rhs
    ELSE Evaluate(c.lhs, X, defs) <= c.rhs

RECURSIVE Picks(_, _)
\* one start variable that may be 1 out of each "== 1" sum
Picks(cs, open) ==
    IF cs = {} THEN {{}}
    ELSE LET c == CHOOSE x \in cs : TRUE
         IN {p \cup {k} : p \in Picks(cs \ {c}, open), k \in DOMAIN c.lhs \cap open}

\* every assignment within the bounds that satisfies every constraint
Feasible(var_cache, constraints, defs) ==
    LET names == DOMAIN var_cache
        \* a start variable that is part of an active variable fixed at 0 is 0
        closed == UNION {defs[a] : a \in {k \in DOMAIN defs : var_cache[k].upBound = 0}}
        open == {k \in names : k[1] = "B" /\ var_cache[k].upBound = 1} \ closed
        once == {c \in constraints : c.sense = "==" /\ c.rhs = 1}
        free == open \ UNION {DOMAIN c.lhs : c \in once}
        rest == {c \in constraints : ~IsDefinition(c)}
    IN {X \in {p \cup f : p \in Picks(once, open), f \in SUBSET free} :
          /\ \A a \in DOMAIN defs : Value(a, X, defs) <= var_cache[a].upBound
          /\ \A c \in rest : Holds(c, X, defs)}

\* the assignments an optimal status can come with
Optimal(var_cache, problem) ==
    LET defs == Definitions(problem.constraints)
        scored == {<<Evaluate(problem.objective, X, defs), X>> :
                      X \in Feasible(var_cache, problem.constraints, defs)}
    IN {p[2] : p \in {q \in scored : \A r \in scored : r[1] <= q[1]}}

\* the returned list read from the active variables instead of the start ones
PlacementOfActive(X, venues, talks, sa) ==
    {c \in {<<slot, talks[i].id, venue>> :
              slot \in sa, i \in DOMAIN talks, venue \in venues} :
        \E k \in X : /\ k[3] = c[2]
                     /\ k[4] = c[3]
                     /\ c[1] \in Range(k[2], k[2] + TalksById(talks)[k[3]].duration)}

\* the list schedule_talks returns for an assignment
Placement(X, venues, talks, sa) ==
    {<<slot, talks[i].id, venue>> :
        slot \in sa, i \in DOMAIN talks, venue \in venues}
    \cap {<<k[2], k[3], k[4]>> : k \in X}

(* ------------------------------ slot grid ------------------------------ *)
\* A datetime is the number of minutes since a fixed midnight; a timedelta's
\* total_seconds() / 60 is a difference of two of them.
SlotMinutes == 10

\* int(x / 10) for a whole number of minutes x: Python's int() drops the
\* fraction, rounding towards zero
IntDiv(x, y) == IF x >= 0 THEN x \div y ELSE -((-x) \div y)

\* num_slots(start_time, end_time)
num_slots(start_time, end_time) == IntDiv(end_time - start_time, SlotMinutes)

\* calculate_slots(event_start, range_start, range_end, spacing_slots): the
\* list(range(...)) it returns
calculate_slots(event_start, range_start, range_end, spacing_slots) ==
    LET slot_start == IntDiv(range_start - event_start, SlotMinutes)
        stop == slot_start + num_slots(range_start, range_end) + spacing_slots
    IN [i \in 1 .. Max(0, stop - slot_start) |-> slot_start + i - 1]

\* calc_time(event_start, slots)
calc_time(event_start, slots) == event_start + slots * SlotMinutes

\* calc_slot(event_start, time)
calc_slot(event_start, time) == IntDiv(time - event_start, SlotMinutes)

(* ------------------------------- schedule ------------------------------ *)
\* an optional field of an event, or an optional value: absent, or one value
None == {}
Some(x) == {x}
The(o) == CHOOSE x \in o : TRUE

Min(S) == CHOOSE x \in S : \A y \in S : x <= y

\* event_start = min(parse(r["start"]) for event in schedule for r in event["time_ranges"])
EventStart(schedule) ==
    Min(UNION {{schedule[i].time_ranges[j].start : j \in DOMAIN schedule[i].time_ranges} :
                  i \in DOMAIN schedule})

RECURSIVE SpacingAt(_, _, _)
\* the value of the local spacing_slots while the loop handles event i: line
\* 262 assigns it, so it is the event's own field, or else what the loop left
SpacingAt(schedule, spacing_slots, i) ==
    IF i = 0 THEN spacing_slots
    ELSE IF schedule[i].spacing_slots # None THEN The(schedule[i].spacing_slots)
    ELSE SpacingAt(schedule, spacing_slots, i - 1)

\* the slots of a list of time ranges
RangeSlots(event_start, ranges, spacing) ==
    UNION {Elems(calculate_slots(event_start, ranges[j].start, ranges[j].end, spacing)) :
              j \in DOMAIN ranges}

\* the Talk the loop appends for event i
EventTalk(schedule, spacing_slots, i) ==
    LET event == schedule[i]
        spacing == SpacingAt(schedule, spacing_slots, i)
        event_start == EventStart(schedule)
    IN [id |-> event.id,
        duration |-> IntDiv(event.duration, 10) + spacing,
        venues |-> event.valid_venues,
        speakers |-> event.speakers,
        preferred_venues |-> event.preferred_venues,
        allowed_slots |-> RangeSlots(event_start, event.time_ranges, spacing),
        preferred_slots |-> RangeSlots(event_start, event.preferred_time_ranges, spacing)]

\* old_slots: a triple for every event that has both a time and a venue
OldSlots(schedule) ==
    LET placed == {i \in DOMAIN schedule :
                      schedule[i].time # None /\ schedule[i].venue # None}
        RECURSIVE collect(_)
        collect(i) ==
            IF i = 0 THEN <<>>
            ELSE IF i \in placed
                 THEN Append(collect(i - 1),
                             <<calc_slot(EventStart(schedule), The(schedule[i].time)),
                               schedule[i].id, The(schedule[i].venue)>>)
                 ELSE collect(i - 1)
    IN collect(Len(schedule))

\* the events returned: time and venue written onto the solved ones
WriteBack(schedule, placement) ==
    [i \in DOMAIN schedule |->
        IF \E p \in placement : p[2] = schedule[i].id
        THEN LET p == CHOOSE q \in placement : q[2] = schedule[i].id
             IN [schedule[i] EXCEPT
                    !.time = Some(calc_time(EventStart(schedule), p[1])),
                    !.venue = Some(p[3])]
        ELSE schedule[i]]

(* ------------------------------- inputs -------------------------------- *)
Slots == 0 .. MaxSlot
VenueIds == {101, 102}
VenueSets == {{101}, {102}, {101, 102}}
\* the slot sets a caller assigns to slots_available: the whole grid, a grid
\* with a gap, a single slot, no slot
SlotSets == {Slots, Slots \ {1}, {0}, {}}
\* the allowed_slots of a talk
AllowedSets == {Slots, Slots \ {1}, {0, 1}}

Talk(id, duration, venues, speakers, preferred_venues, allowed_slots, preferred_slots) ==
    [id |-> id, duration |-> duration, venues |-> venues, speakers |-> speakers,
     preferred_venues |-> preferred_venues, allowed_slots |-> allowed_slots,
     preferred_slots |-> preferred_slots]

\* two talks without preferences: the hard constraints decide
PlainTalkLists ==
    {<<Talk(1, d1, v1, <<"a">>, {}, a1, {}), Talk(2, d2, v2, sp2, {}, Slots, {})>> :
        d1 \in 1 .. MaxDuration, d2 \in 1 .. MaxDuration,
        v1 \in {{101}, {101, 102}}, v2 \in VenueSets,
        sp2 \in {<<"a">>, <<"b">>},
        a1 \in AllowedSets}

\* one talk with preferences: the objective decides
PreferringTalkLists ==
    {<<Talk(1, d, v, <<"a">>, pv, al, ps)>> :
        d \in 1 .. MaxDuration, v \in VenueSets, pv \in {{}, {102}},
        al \in AllowedSets, ps \in {{}, {1}, {MaxSlot - 1, MaxSlot}}}

TalkLists == PlainTalkLists \cup PreferringTalkLists

\* the talk lists of the calls that study prior placements: the talk with
\* preferences, or two talks that compete for the first one's earlier place
PriorTalkLists ==
    PreferringTalkLists
    \cup {<<Talk(1, d1, VenueIds, <<"a">>, {}, Slots, {}),
            Talk(2, d2, v2, sp2, {}, Slots, {})>> :
            d1 \in 1 .. MaxDuration, d2 \in {1, MaxDuration},
            v2 \in {{101}}, sp2 \in {<<"a">>, <<"b">>}}

\* a grid wide enough to hold a placement with no slot within NearbySlots of
\* a prior placement, one talk without preferences on it, and one prior
\* placement of that talk
WideSlots == 0 .. (MaxSlot + MaxDuration + NearbySlots)
WideTalkLists ==
    {<<Talk(1, d, v, <<"a">>, {}, WideSlots, {})>> :
        d \in 1 .. MaxDuration, v \in {{101}, VenueIds}}
WideOldTalkLists ==
    {<<(<<slot, 1, venue>>)>> : slot \in 0 .. (MaxSlot + 1), venue \in VenueIds}

\* prior placements of talk 1: none, one (in or off the grid, in any venue),
\* the same one twice
OldTalkLists ==
    {<<>>}
    \cup {<<(<<slot, 1, venue>>)>> : slot \in {-1, 0, MaxSlot + 1}, venue \in VenueIds}
    \cup {<<(<<0, 1, 101>>), (<<0, 1, 101>>)>>}

\* the schedule documents: one event, or two events whose time ranges
\* overlap; an event may carry its own spacing_slots and an earlier
\* time and venue
TimeRange(start, end) == [start |-> start, end |-> end]

Event(id, time_ranges, valid_venues, duration, spacing_slots, time, venue) ==
    [id |-> id, time_ranges |-> time_ranges, preferred_time_ranges |-> <<>>,
     valid_venues |-> valid_venues, preferred_venues |-> {},
     speakers |-> <<"a">>, duration |-> duration,
     spacing_slots |-> spacing_slots, time |-> time, venue |-> venue]

Documents ==
    {<<Event(1, <<TimeRange(start, start + 20)>>, {101}, 10, sp, t, v)>> :
        start \in {0, 10}, sp \in {None, Some(0)},
        t \in {None, Some(0)}, v \in {None, Some(101)}}
    \cup {<<Event(1, <<TimeRange(0, 20)>>, {101}, 10, sp1, None, None),
            Event(2, <<TimeRange(10, 30)>>, vs, 10, sp2, None, None)>> :
            sp1 \in {None, Some(0), Some(2)}, sp2 \in {None, Some(0)},
            vs \in {{101}, {101, 102}}}

\* the spacing_slots argument of schedule: its default, or none
SpacingArguments == {1, 0}

\* the talk lists handed to an object that has served other calls
FewTalkLists ==
    {<<Talk(1, d, {101}, <<"a">>, {}, al, {})>> :
        d \in 1 .. MaxDuration, al \in {Slots, 1 .. MaxSlot + 1}}
    \cup {<<Talk(1, 1, {101}, <<"a">>, {}, Slots, {}),
            Talk(2, d, {101}, <<"b">>, {}, Slots, {})>> : d \in 1 .. MaxDuration}

\* the arguments of calculate_slots: datetimes every 5 minutes around the epoch
MaxMinutes == 20
Minutes == {m \in -MaxMinutes .. MaxMinutes : m % 5 = 0}
MaxSpacing == 2
SlotArguments ==
    {[event_start |-> e, range_start |-> a, range_end |-> b, spacing_slots |-> sp] :
        e \in {0, 5}, a \in Minutes, b \in Minutes, sp \in 0 .. MaxSpacing}

(* ------------------------------- state --------------------------------- *)
VARIABLES
    slots_available,    \* self.slots_available
    talks_by_id,        \* self.talks_by_id
    var_cache,          \* self.var_cache: name -> variable (its bounds)
    problem,            \* self.problem: constraints and objective
    pc,                 \* where the caller is: "new", "ready", "returned", "raised"
    call,               \* the arguments of the last call
    status,             \* pulp.LpStatus[self.problem.status] of the last solve
    solved,             \* the list the last schedule_talks returned
    returned,           \* the list of events the last schedule returned
    previous,           \* the placement a re-solve was given as old_talks
    slot_call,          \* the arguments of a calculate_slots call
    slot_list           \* the list that call returned

vars == <<slots_available, talks_by_id, var_cache, problem, pc, call, status,
          solved, returned, previous, slot_call, slot_list>>

NoProblem == [constraints |-> {}, objective |-> <<>>]
NoCall == [op |-> "none", talks |-> <<>>, old_talks |-> <<>>,
           schedule |-> <<>>, spacing_slots |-> None]

NoSlotCall == [event_start |-> 0, range_start |-> 0, range_end |-> 0, spacing_slots |-> 0]

\* SlotMachine.__init__
Init ==
    /\ slots_available = {}
    /\ talks_by_id = <<>>
    /\ var_cache = <<>>
    /\ problem = NoProblem
    /\ pc = "new"
    /\ call = NoCall
    /\ status = "Not Solved"
    /\ solved = {}
    /\ returned = <<>>
    /\ previous = None
    /\ slot_call = NoSlotCall
    /\ slot_list = <<>>

\* sm = SlotMachine()
New ==
    /\ pc \in {"returned", "raised"}
    /\ slots_available' = {}
    /\ talks_by_id' = <<>>
    /\ var_cache' = <<>>
    /\ problem' = NoProblem
    /\ pc' = "new"
    /\ call' = NoCall
    /\ status' = "Not Solved"
    /\ solved' = {}
    /\ returned' = <<>>
    /\ previous' = None
    /\ UNCHANGED <<slot_call, slot_list>>

\* sm.slots_available = avail_slots
SetSlotsAvailable(avail_slots) ==
    /\ slots_available' = avail_slots
    /\ pc' = "ready"
    /\ UNCHANGED <<talks_by_id, var_cache, problem, call, status, solved,
                   returned, previous, slot_call, slot_list>>

\* schedule_talks(talks, old_talks) on an object whose slots_available is sa:
\* build, solve, then return the starts that are 1 or raise Unsatisfiable
schedule_talks(talks, old_talks, sa, made) ==
    LET venues == UNION {talks[i].venues : i \in DOMAIN talks}
    IN \E built \in {get_problem(venues, talks, old_talks, sa)} :
       \E optimal \in {Optimal(built.var_cache, built)} :
          /\ slots_available' = sa
          /\ talks_by_id' = TalksById(talks)
          /\ var_cache' = built.var_cache
          /\ problem' = [constraints |-> built.constraints,
                         objective |-> built.objective]
          /\ call' = [made EXCEPT !.talks = talks, !.old_talks = old_talks]
          /\ IF optimal = {}
             THEN /\ status' = "Infeasible"
                  /\ solved' = {}
                  /\ pc' = "raised"
             ELSE /\ status' = "Optimal"
                  /\ \E X \in optimal : solved' = Placement(X, venues, talks, sa)
                  /\ pc' = "returned"

ScheduleTalks(talks, old_talks) ==
    /\ schedule_talks(talks, old_talks, slots_available,
                      [NoCall EXCEPT !.op = "schedule_talks"])
    /\ returned' = <<>>
    /\ previous' = None
    /\ UNCHANGED <<slot_call, slot_list>>

\* the caller of test_simple: solve again with the placement just returned
Resolve ==
    /\ pc = "returned"
    /\ call.op = "schedule_talks"
    /\ schedule_talks(call.talks, SetToSeq(solved), slots_available,
                      [NoCall EXCEPT !.op = "resolve"])
    /\ returned' = <<>>
    /\ previous' = Some(solved)
    /\ UNCHANGED <<slot_call, slot_list>>

\* schedule(schedule, spacing_slots): the loop over the events, the solve,
\* and the write-back of time and venue
Schedule(schedule, spacing_slots) ==
    LET talks == [i \in DOMAIN schedule |-> EventTalk(schedule, spacing_slots, i)]
        slots == UNION {talks[i].allowed_slots : i \in DOMAIN schedule}
    IN /\ schedule_talks(talks, OldSlots(schedule), slots_available \cup slots,
                         [NoCall EXCEPT !.op = "schedule", !.schedule = schedule,
                                        !.spacing_slots = Some(spacing_slots)])
       /\ returned' = IF pc' = "returned" THEN WriteBack(schedule, solved') ELSE <<>>
       /\ previous' = None
       /\ UNCHANGED <<slot_call, slot_list>>

\* slots = SlotMachine.calculate_slots(event_start, range_start, range_end, spacing_slots)
CalculateSlots ==
    /\ slot_list' = calculate_slots(slot_call.event_start, slot_call.range_start,
                                    slot_call.range_end, slot_call.spacing_slots)
    /\ pc' = "returned"
    /\ UNCHANGED <<slots_available, talks_by_id, var_cache, problem, call, status,
                   solved, returned, previous, slot_call>>

\* the callers of the tests: a new object, its slots assigned, one solve
Next ==
    \/ New
    \/ \E avail_slots \in SlotSets : pc = "new" /\ SetSlotsAvailable(avail_slots)
    \/ \E talks \in TalkLists, old_talks \in OldTalkLists :
          pc = "ready" /\ ScheduleTalks(talks, old_talks)

Spec == Init /\ [][Next]_vars

\* the caller of test_simple: a new object, its slots assigned, one solve,
\* and the same solve again with the placement returned as old_talks
NextPriors ==
    \/ New
    \/ \E avail_slots \in SlotSets : pc = "new" /\ SetSlotsAvailable(avail_slots)
    \/ \E talks \in PriorTalkLists, old_talks \in OldTalkLists :
          pc = "ready" /\ ScheduleTalks(talks, old_talks)
    \/ Resolve

SpecPriors == Init /\ [][NextPriors]_vars

\* one solve of a talk with a prior placement on the wide grid
NextWide ==
    \/ New
    \/ \E avail_slots \in {WideSlots, WideSlots \ {MaxSlot}} :
          pc = "new" /\ SetSlotsAvailable(avail_slots)
    \/ \E talks \in WideTalkLists, old_talks \in WideOldTalkLists :
          pc = "ready" /\ ScheduleTalks(talks, old_talks)

SpecWide == Init /\ [][NextWide]_vars

\* one object serving call after call
NextReuse ==
    \/ \E schedule \in Documents, spacing_slots \in SpacingArguments :
          Schedule(schedule, spacing_slots)
    \/ \E talks \in FewTalkLists, old_talks \in {<<>>, <<(<<0, 1, 101>>)>>} :
          ScheduleTalks(talks, old_talks)

SpecReuse == Init /\ [][NextReuse]_vars

\* calculate_slots alone, on every argument of SlotArguments
InitSlots ==
    /\ slots_available = {}
    /\ talks_by_id = <<>>
    /\ var_cache = <<>>
    /\ problem = NoProblem
    /\ pc = "new"
    /\ call = NoCall
    /\ status = "Not Solved"
    /\ solved = {}
    /\ returned = <<>>
    /\ previous = None
    /\ slot_call \in {c \in SlotArguments : c.range_start <= c.range_end}
    /\ slot_list = <<>>

NextSlots == pc = "new" /\ CalculateSlots

SpecSlots == InitSlots /\ [][NextSlots]_vars

(* ------------------------- reading a placement ------------------------- *)
\* the slots a returned triple occupies: [start, start + duration)
Occupied(p) == Range(p[1], p[1] + talks_by_id[p[2]].duration)

SharesSpeaker(id1, id2) ==
    Elems(talks_by_id[id1].speakers) \cap Elems(talks_by_id[id2].speakers) # {}

\* The hard constraints as the documentation words them, stated on a
\* placement (one (slot, venue) per talk) and not on the program's variables.
ValidPlacement(f, talks, sa) ==
    LET ids == DOMAIN f
        tbi == TalksById(talks)
        span(id) == Range(f[id][1], f[id][1] + tbi[id].duration)
    IN /\ \A id \in ids :
            /\ f[id][2] \in tbi[id].venues
            /\ span(id) \subseteq tbi[id].allowed_slots
            /\ span(id) \subseteq sa
       /\ \A id1 \in ids : \A id2 \in ids \ {id1} :
            /\ f[id1][2] = f[id2][2] => span(id1) \cap span(id2) = {}
            /\ Elems(tbi[id1].speakers) \cap Elems(tbi[id2].speakers) # {}
                  => span(id1) \cap span(id2) = {}

ValidPlacements(talks, sa) ==
    {f \in [{talks[i].id : i \in DOMAIN talks} ->
               sa \X UNION {talks[i].venues : i \in DOMAIN talks}] :
        ValidPlacement(f, talks, sa)}

\* the placements the built constraints admit
FeasiblePlacements(vc, constraints, venues, talks, sa) ==
    UNION {{Placement(X, venues, talks, sa) : X \in Feasible(vc, constraints, defs)} :
              defs \in {Definitions(constraints)}}

(* -------------------------------- claims ------------------------------- *)
\* C1: whenever schedule_talks returns, the returned list holds exactly one
\* (slot, talk, venue) triple for every talk of the input list: no talk is
\* missing, none appears twice, and no triple is of another talk.
C1_ExactlyOneTriplePerTalk ==
    pc = "returned" =>
        /\ \A i \in DOMAIN call.talks :
              Cardinality({p \in solved : p[2] = call.talks[i].id}) = 1
        /\ \A p \in solved : p[2] \in {call.talks[i].id : i \in DOMAIN call.talks}

C1_Witness ==
    /\ pc = "returned"
    /\ Len(call.talks) = 2
    /\ Cardinality(solved) = 2
    /\ \E p \in solved : talks_by_id[p[2]].duration > 1

\* C2: in a returned placement, two distinct talks placed in the same venue
\* occupy disjoint slot intervals [start, start + duration).
C2_VenueIntervalsDisjoint ==
    pc = "returned" =>
        \A p \in solved : \A q \in solved \ {p} :
            p[3] = q[3] => Occupied(p) \cap Occupied(q) = {}

C2_Witness ==
    /\ pc = "returned"
    /\ \E p \in solved : \E q \in solved \ {p} :
          /\ p[3] = q[3]
          /\ talks_by_id[p[2]].duration > 1
          /\ q[1] = p[1] + talks_by_id[p[2]].duration

\* C3: in a returned placement, each talk's start slot is one of its
\* allowed_slots and of slots_available, and its venue is one of its venues.
C3_StartAllowed ==
    pc = "returned" =>
        \A p \in solved :
            /\ p[1] \in talks_by_id[p[2]].allowed_slots
            /\ p[1] \in slots_available
            /\ p[3] \in talks_by_id[p[2]].venues

C3_Witness ==
    /\ pc = "returned"
    /\ \E p \in solved :
          /\ talks_by_id[p[2]].allowed_slots # slots_available
          /\ talks_by_id[p[2]].venues # UNION {call.talks[i].venues : i \in DOMAIN call.talks}

\* C4: in a returned placement, two talks that list a common speaker occupy
\* disjoint slot intervals, whatever venues they are placed in.
C4_SpeakerIntervalsDisjoint ==
    pc = "returned" =>
        \A p \in solved : \A q \in solved \ {p} :
            SharesSpeaker(p[2], q[2]) => Occupied(p) \cap Occupied(q) = {}

C4_Witness ==
    /\ pc = "returned"
    /\ \E p \in solved : \E q \in solved \ {p} :
          /\ SharesSpeaker(p[2], q[2])
          /\ p[3] # q[3]

\* C5: when no assignment of the talks to (slot, venue) satisfies the hard
\* constraints, schedule_talks raises Unsatisfiable and returns no placement.
C5_UnsatisfiableRaised ==
    (call.op # "none" /\ ValidPlacements(call.talks, slots_available) = {}) =>
        /\ pc = "raised"
        /\ status # "Optimal"
        /\ solved = {}

\* two talks that each fit alone but not together
C5_Witness ==
    /\ pc = "raised"
    /\ Len(call.talks) = 2
    /\ \A i \in DOMAIN call.talks :
          ValidPlacements(<<call.talks[i]>>, slots_available) # {}

\* C6: a re-solve given the returned placement S as old_talks, with the same
\* talks and available slots, returns S again.
C6_ResolveReturnsSame ==
    call.op = "resolve" => (pc = "returned" /\ previous = Some(solved))

\* C7: the placements the built constraints admit are the same with the
\* prior placements as with none, so Unsatisfiable is raised with the priors
\* exactly when it is raised without them.
C7_PriorsNeverConstrain ==
    call.op # "none" =>
        LET venues == UNION {call.talks[i].venues : i \in DOMAIN call.talks}
        IN \A without \in {get_problem(venues, call.talks, <<>>, slots_available)} :
           \A free \in {FeasiblePlacements(without.var_cache, without.constraints,
                                           venues, call.talks, slots_available)} :
              /\ FeasiblePlacements(var_cache, problem.constraints,
                                    venues, call.talks, slots_available) = free
              /\ (pc = "raised") <=> (free = {})

\* a prior placement off the grid, in a venue the talk may not use
C7_Witness ==
    /\ pc = "returned"
    /\ \E i \in DOMAIN call.old_talks :
          /\ call.old_talks[i][1] \notin slots_available
          /\ call.old_talks[i][3] \notin talks_by_id[call.old_talks[i][2]].venues

\* C8: after any sequence of earlier schedule and schedule_talks calls on
\* one object, the variables, bounds, constraints and objective a call builds,
\* and the placements it can return, are those a new object builds and can
\* return for the same arguments.
C8_HistoryIndependent ==
    call.op \in {"schedule", "schedule_talks"} =>
        LET venues == UNION {call.talks[i].venues : i \in DOMAIN call.talks}
            \* a new object has no slot; schedule adds the slots of its events
            new_slots == IF call.op = "schedule"
                         THEN UNION {call.talks[i].allowed_slots : i \in DOMAIN call.talks}
                         ELSE {}
            new == get_problem(venues, call.talks, call.old_talks, new_slots)
            new_optimal == {Placement(X, venues, call.talks, new_slots) :
                               X \in Optimal(new.var_cache, new)}
        IN /\ var_cache = new.var_cache
           /\ problem.constraints = new.constraints
           /\ problem.objective = new.objective
           /\ (pc = "raised") <=> (new_optimal = {})
           /\ pc = "returned" => solved \in new_optimal

\* C9: calculate_slots returns the consecutive integers first, ...,
\* first + n + spacing - 1, where first = floor((range_start - event_start) / 10
\* minutes) and n = floor((range_end - range_start) / 10 minutes).
C9_SlotsAreFloorRange ==
    (pc = "returned" /\ call.op = "none") =>
        LET first == (slot_call.range_start - slot_call.event_start) \div SlotMinutes
            n == (slot_call.range_end - slot_call.range_start) \div SlotMinutes
        IN slot_list = [i \in 1 .. (n + slot_call.spacing_slots) |-> first + i - 1]

\* C10: in a returned placement, every slot a talk occupies, start through
\* start + duration - 1, is one of its allowed_slots and of slots_available.
C10_WholeIntervalAllowed ==
    pc = "returned" =>
        \A p \in solved :
            /\ Occupied(p) \subseteq talks_by_id[p[2]].allowed_slots
            /\ Occupied(p) \subseteq slots_available

\* a talk of two slots or more placed on a grid with a gap
C10_Witness ==
    /\ pc = "returned"
    /\ \E p \in solved :
          /\ talks_by_id[p[2]].duration > 1
          /\ \E s \in Slots : s \notin slots_available /\ s + 1 \in slots_available

\* C11: in schedule, the spacing added to an event's duration and to the end
\* of each of its time ranges is the event's own spacing_slots field when it
\* has one and the spacing_slots argument of the call otherwise, whatever the
\* event's position and whatever the other events override.
C11_SpacingIsOwnOrArgument ==
    call.op = "schedule" =>
        \A i \in DOMAIN call.schedule :
            LET event == call.schedule[i]
                spacing == IF event.spacing_slots # None
                           THEN The(event.spacing_slots)
                           ELSE The(call.spacing_slots)
            IN /\ call.talks[i].duration = IntDiv(event.duration, SlotMinutes) + spacing
               /\ call.talks[i].allowed_slots =
                     RangeSlots(EventStart(call.schedule), event.time_ranges, spacing)

\* the objective of the built problem for the talk starting at slot in venue
PlacementObjective(slot, talk_id, venue) ==
    Evaluate(problem.objective, {B(slot, talk_id, venue)},
             Definitions(problem.constraints))

\* the tier of a start of the talk against its prior placement prior:
\* 1 the same slot and venue, 2 the same slot in another venue, 3 another slot
\* with the whole interval within NearbySlots of the prior window, 4 no slot
\* within NearbySlots of the prior window, 0 anything else
Tier(slot, venue, duration, prior) ==
    LET window == Range(prior[1] - NearbySlots, prior[1] + duration + NearbySlots)
        span == Range(slot, slot + duration)
    IN IF slot = prior[1] THEN (IF venue = prior[3] THEN 1 ELSE 2)
       ELSE IF span \subseteq window THEN 3
       ELSE IF span \cap window = {} THEN 4
       ELSE 0

\* C12: for a talk without preferred venues or slots and with one prior
\* placement (s0, v0), the objective orders the talk's possible starts
\* strictly by tier: same slot and venue > same slot in another venue >
\* another slot within 6 slots of the prior window > no slot in the window.
C12_TiersStrictlyOrdered ==
    (call.op = "schedule_talks" /\ call.talks \in WideTalkLists) =>
        LET talk == call.talks[1]
            prior == call.old_talks[1]
            starts == {k \in DOMAIN var_cache : k[1] = "B" /\ var_cache[k].upBound = 1}
        IN \A p \in starts : \A q \in starts :
              LET tp == Tier(p[2], p[4], talk.duration, prior)
                  tq == Tier(q[2], q[4], talk.duration, prior)
              IN (tp >= 1 /\ tq >= 1 /\ tp < tq) =>
                    PlacementObjective(p[2], talk.id, p[4])
                        > PlacementObjective(q[2], talk.id, q[4])

=============================================================================
